---- MODULE Spec2Model ----
(***************************************************************************)
(* A model of the ranno crate (src/src/lib.rs): the Annotated container,   *)
(* its lazily filled annotation cell, the AnnotatedRefMut guard, the       *)
(* Annotation capability with its blanket adapters, and the linked list of *)
(* the crate-level example.                                                *)
(***************************************************************************)
EXTENDS Integers, Sequences, FiniteSets, TLC

\* ------------------------------------------------------------------ bounds
\* Children are the integers 0..MaxChild, annotations 0..MaxAnno.
MaxChild == 1
MaxAnno == 1
\* Calls of anno() counted per epoch, Ref<A> views alive at once, and
\* mutable dereferences of one guard.
MaxAnnoCalls == 2
MaxRefs == 2
MaxDerefMut == 2
\* Elements the example's list holds at most, and the values 1..MaxElem pushed.
MaxLen == 3
MaxElem == 2
\* Indirections stacked over a raw child.
MaxWrap == 2

Children == 0..MaxChild
Annos == 0..MaxAnno
\* The places a container can live in: two bindings of the caller.
Ids == {"x", "y"}
Elems == 1..MaxElem

\* ------------------------------------------------------------ Option<T>
None == <<>>
Some(v) == <<v>>
IsNone(o) == o = <<>>
IsSome(o) == o # <<>>
Unwrap(o) == o[1]

VARIABLES
    derive,        \* the capability A::from_child, a total function of the child
    conts,         \* Ids -> Option<Annotated>: None when the binding is unset or moved from
    guards,        \* Ids -> Option<AnnotatedRefMut>: the live guard borrowing the container
    refs,          \* Ids -> number of live Ref<A> views returned by anno()
    epochDerives,  \* Ids -> from_child invocations since construction or the last invalidation
    epochAnnos,    \* Ids -> anno() calls since construction or the last invalidation
    stale,         \* Ids -> the annotation the last invalidation erased, if any
    ret,           \* the last operation: its name, its receiver(s), its return value
    list,          \* the example's LinkedList<C, Cardinality>
    wrapDerives,   \* per nested Annotated of the list, outermost first: from_child invocations for it
    listRet,       \* the example's last three operations, latest first, and the latest one's result
    adRet          \* Option: the last derivation through adapters (child, value, raw from_child invocations)

contVars == <<conts, guards, refs, epochDerives, epochAnnos, stale, ret>>
listVars == <<list, wrapDerives, listRet>>
vars == <<derive, contVars, listVars, adRet>>

\* --------------------------------------------------------- the capability
\* trait Annotation<C>: fn from_child(t: &C) -> Self
FromChild(child) == derive[child]

\* C::default() and C::clone() of the integer child
ChildDefault == 0
ChildClone(child) == child

\* ------------------------------------------------------------- Annotated
\* Annotated::new: an empty RefCell and the child.  The eager variant
\* computes the annotation at construction.
AnnotatedNewEager(child) == [child |-> child, anno |-> Some(FromChild(child))]
AnnotatedNew(child) == [child |-> child, anno |-> None]

\* Default::default
AnnotatedDefault == AnnotatedNew(ChildDefault)

\* From<C>::from
AnnotatedFrom(elem) == AnnotatedNew(elem)

\* Annotated::child
AnnotatedChild(self) == self.child

\* Annotated::split: (self.child, self.anno.take())
\* The result holds the returned pair and the number of from_child invocations.
\* Variant of split that derives the annotation it returns.
AnnotatedSplitRecompute(self) ==
    [out |-> <<self.child, Some(FromChild(self.child))>>, calls |-> 1]
AnnotatedSplit(self) == [out |-> <<self.child, self.anno>>, calls |-> 0]

\* Annotated::anno.  `borrowed` tells whether a Ref of the cell is alive:
\* RefCell::replace panics on a cell that is borrowed.  The result holds the
\* container afterwards, the value the returned Ref points to, the number of
\* from_child invocations, and whether the call panicked.
\* Variant of anno that derives on every call.
AnnotatedAnnoAlways(self, borrowed) ==
    IF borrowed
    THEN [self |-> self, val |-> 0, calls |-> 0, panic |-> TRUE]
    ELSE LET anno == FromChild(self.child)
         IN [self |-> [self EXCEPT !.anno = Some(anno)],
             val |-> anno, calls |-> 1, panic |-> FALSE]
\* Variant of anno that derives without storing the result.
AnnotatedAnnoNoStore(self, borrowed) ==
    IF IsNone(self.anno)
    THEN [self |-> self, val |-> FromChild(self.child), calls |-> 1,
          panic |-> FALSE]
    ELSE [self |-> self, val |-> Unwrap(self.anno), calls |-> 0,
          panic |-> FALSE]
AnnotatedAnno(self, borrowed) ==
    IF IsNone(self.anno)
    THEN IF borrowed
         THEN [self |-> self, val |-> 0, calls |-> 0, panic |-> TRUE]
         ELSE LET anno == FromChild(self.child)
              IN [self |-> [self EXCEPT !.anno = Some(anno)],
                  val |-> anno, calls |-> 1, panic |-> FALSE]
    ELSE [self |-> self, val |-> Unwrap(self.anno), calls |-> 0,
          panic |-> FALSE]

\* Annotated::child_mut: AnnotatedRefMut { annotated: self }.  The container
\* is returned as the call leaves it.
\* Variant of child_mut that empties the cell when the guard is made.
AnnotatedChildMutClearing(self) == [self EXCEPT !.anno = None]
AnnotatedChildMut(self) == self

\* Clone::clone: Self::new(self.child.clone())
\* Variant of clone that copies the cell, as a derived Clone would.
AnnotatedCloneWithCache(self) ==
    [child |-> ChildClone(self.child), anno |-> self.anno]
AnnotatedClone(self) == AnnotatedNew(ChildClone(self.child))
\* The receiver of clone afterwards: clone reads self.child and nothing else.
\* Variant of clone that fills the receiver's cell on the way.
AnnotatedCloneSourceFilled(self) ==
    [self EXCEPT !.anno = Some(FromChild(self.child))]
AnnotatedCloneSource(self) == self

\* Ordering of the integer child
OrdCmp(a, b) == IF a < b THEN "Less" ELSE IF a = b THEN "Equal" ELSE "Greater"

\* PartialEq::eq, PartialOrd::partial_cmp, Ord::cmp
\* Variant of eq that compares the cells too, as a derived PartialEq would.
AnnotatedEqWithAnno(self, other) ==
    self.child = other.child /\ self.anno = other.anno
AnnotatedEq(self, other) == self.child = other.child
AnnotatedPartialCmp(self, other) == Some(OrdCmp(self.child, other.child))
AnnotatedCmp(self, other) == OrdCmp(self.child, other.child)

\* ------------------------------------------------------- AnnotatedRefMut
\* The guard child_mut builds: AnnotatedRefMut { annotated: self }.  A guard
\* records how often it was mutably dereferenced and whether the &mut C it
\* handed out is alive.
\* Variant in which making the guard already hands out the &mut C.
RefMutNewExposing == [derefMuts |-> 1, exposed |-> TRUE]
RefMutNew == [derefMuts |-> 0, exposed |-> FALSE]

\* The container when its guard goes out of scope: AnnotatedRefMut has no
\* Drop impl.
\* Variant that empties the cell when the guard is dropped.
RefMutDropClearing(annotated) == [annotated EXCEPT !.anno = None]
RefMutDrop(annotated) == annotated

\* Deref::deref: &self.annotated.child
RefMutDeref(annotated) == annotated.child

\* DerefMut::deref_mut: the annotation cell is replaced by an empty one, then
\* the child is handed out.
\* Variant of deref_mut that leaves the cell as it is.
RefMutDerefMutKeeping(annotated) == annotated
RefMutDerefMut(annotated) == [annotated EXCEPT !.anno = None]

\* ------------------------------------------- the blanket adapters
\* A child behind indirections: the indirections outermost first ("Ref" for
\* &C, "RefMut" for &mut C, "Rc", "Arc", "Box") and the raw child.
Kinds == {"Ref", "RefMut", "Rc", "Arc", "Box"}
Wrapped(layers, raw) == [layers |-> layers, raw |-> raw]
\* *t / t.as_ref(): one indirection less
Inner(t) == Wrapped(Tail(t.layers), t.raw)

\* A::from_child resolved at the type of t.  Each adapter delegates to
\* from_child of what it points to; the result carries the number of
\* invocations of the raw implementation.
RECURSIVE FromChildAt(_)
\* Variant of the &C adapter that derives twice.
FromChildRefTwice(t) ==
    [val |-> FromChildAt(Inner(t)).val,
     calls |-> FromChildAt(Inner(t)).calls + FromChildAt(Inner(t)).calls]
FromChildRef(t) == FromChildAt(Inner(t))
FromChildRefMut(t) == FromChildAt(Inner(t))
FromChildRc(t) == FromChildAt(Inner(t))
FromChildArc(t) == FromChildAt(Inner(t))
FromChildBox(t) == FromChildAt(Inner(t))
FromChildRaw(t) == [val |-> FromChild(t.raw), calls |-> 1]
FromChildAt(t) ==
    IF t.layers = <<>> THEN FromChildRaw(t)
    ELSE CASE Head(t.layers) = "Ref" -> FromChildRef(t)
           [] Head(t.layers) = "RefMut" -> FromChildRefMut(t)
           [] Head(t.layers) = "Rc" -> FromChildRc(t)
           [] Head(t.layers) = "Arc" -> FromChildArc(t)
           [] Head(t.layers) = "Box" -> FromChildBox(t)

\* ------------------------------------- the linked list of the example
\* LinkedList::new
LinkedListNew == [elem |-> None, next |-> None]

\* Rc::new; nothing in the example clones the pointer
RcNew(value) == [strong |-> 1, value |-> value]

\* Cardinality::from_child for LinkedList, its Rc adapter, and
\* Annotated::anno over Rc<LinkedList>.  Reading a nested annotation fills
\* the nested cells, so each result carries the structure afterwards, and
\* `calls`: per nested Annotated reached, outermost first, whether
\* from_child was invoked for it.
RECURSIVE CardinalityFromChild(_), CardinalityFromRc(_), ListAnno(_)
CardinalityFromChild(l) ==
    LET elem_card == IF IsNone(l.elem) THEN 0 ELSE 1
        next_card ==
            IF IsNone(l.next)
            THEN [next |-> None, val |-> 0, calls |-> <<>>]
            ELSE LET r == ListAnno(Unwrap(l.next))
                 IN [next |-> Some(r.self), val |-> r.val, calls |-> r.calls]
    IN [list |-> [l EXCEPT !.next = next_card.next],
        val |-> elem_card + next_card.val,
        calls |-> next_card.calls]

CardinalityFromRc(t) ==
    LET r == CardinalityFromChild(t.value)
    IN [child |-> [t EXCEPT !.value = r.list], val |-> r.val, calls |-> r.calls]

\* Variant of anno over Rc<LinkedList> that derives on every call.
ListAnnoAlways(self) ==
    LET r == CardinalityFromRc(self.child)
    IN [self |-> [child |-> r.child, anno |-> Some(r.val)],
        val |-> r.val, calls |-> <<1>> \o r.calls]
ListAnno(self) ==
    IF IsNone(self.anno)
    THEN LET r == CardinalityFromRc(self.child)
         IN [self |-> [child |-> r.child, anno |-> Some(r.val)],
             val |-> r.val, calls |-> <<1>> \o r.calls]
    ELSE [self |-> self, val |-> Unwrap(self.anno), calls |-> <<0>>]

\* LinkedList::push.  `made`: the Annotated wrappers it creates.
\* Variant of push whose new wrapper takes over the cell of the old one.
LinkedListPushReuse(self, data) ==
    IF IsNone(self.elem)
    THEN [list |-> [self EXCEPT !.elem = Some(data)], made |-> 0]
    ELSE [list |-> [elem |-> Some(data),
                    next |-> Some([child |-> RcNew(self),
                                   anno |-> IF IsNone(self.next) THEN None
                                            ELSE Unwrap(self.next).anno])],
          made |-> 1]
LinkedListPush(self, data) ==
    IF IsNone(self.elem)
    THEN [list |-> [self EXCEPT !.elem = Some(data)], made |-> 0]
    ELSE [list |-> [elem |-> Some(data),
                    next |-> Some(AnnotatedNew(RcNew(self)))],
          made |-> 1]

\* LinkedList::pop.  `out`: the returned Option<C>; `split` and `made`: the
\* Annotated wrappers it consumes and creates.
LinkedListPop(self) ==
    IF IsNone(self.next)
    THEN [list |-> [self EXCEPT !.elem = None], out |-> self.elem,
          split |-> 0, made |-> 0]
    ELSE LET anno == Unwrap(self.next)
             child == AnnotatedSplit(anno).out[1]
         IN IF child.strong = 1
            THEN [list |-> child.value, out |-> self.elem,
                  split |-> 1, made |-> 0]
            ELSE [list |-> [self EXCEPT !.next = Some(AnnotatedNew(child))],
                  out |-> None, split |-> 1, made |-> 1]

\* The nested Annotated wrappers of a list, outermost first.
RECURSIVE Wrappers(_)
Wrappers(l) ==
    IF IsNone(l.next) THEN <<>>
    ELSE <<Unwrap(l.next)>> \o Wrappers(Unwrap(l.next).child.value)

\* The elements a list holds, counted over its structure alone.
RECURSIVE Count(_)
Count(l) ==
    (IF IsNone(l.elem) THEN 0 ELSE 1)
    + (IF IsNone(l.next) THEN 0 ELSE Count(Unwrap(l.next).child.value))

\* ----------------------------------------------------------------- state
Live(c) == IsSome(conts[c])
Cont(c) == Unwrap(conts[c])
Guarded(c) == IsSome(guards[c])
Guard(c) == Unwrap(guards[c])
Exposed(c) == Guarded(c) /\ Guard(c).exposed

Ret(op, c, d, val) == [op |-> op, c |-> c, d |-> d, val |-> val]

\* No container is bound yet.
InitConts ==
    /\ conts = [c \in Ids |-> None]
    /\ guards = [c \in Ids |-> None]
    /\ refs = [c \in Ids |-> 0]
    /\ epochDerives = [c \in Ids |-> 0]
    /\ epochAnnos = [c \in Ids |-> 0]
    /\ stale = [c \in Ids |-> None]
    /\ ret = Ret("init", "x", "x", 0)

\* LinkedList::new(), nothing done with it yet
InitList ==
    /\ list = LinkedListNew
    /\ wrapDerives = <<>>
    /\ listRet = [ops |-> <<"new", "new", "new">>, val |-> 0, calls |-> 0]

\* Nothing was derived through an adapter yet.
InitAdapters == adRet = None

Init ==
    /\ derive \in [Children -> Annos]
    /\ InitConts
    /\ InitList
    /\ InitAdapters

\* A binding receives a freshly constructed container.
Construct(c, annotated, op, d) ==
    /\ ~Live(c)
    /\ conts' = [conts EXCEPT ![c] = Some(annotated)]
    /\ epochDerives' = [epochDerives EXCEPT ![c] = 0]
    /\ epochAnnos' = [epochAnnos EXCEPT ![c] = 0]
    /\ stale' = [stale EXCEPT ![c] = None]
    /\ ret' = Ret(op, c, d, 0)
    /\ UNCHANGED <<listVars, adRet, derive, guards, refs>>

New(c, child) == Construct(c, AnnotatedNew(child), "new", c)

Default(c) == Construct(c, AnnotatedDefault, "default", c)

From(c, elem) == Construct(c, AnnotatedFrom(elem), "from", c)

\* let d = c.clone();  needs &c, so no guard of c is alive
Clone(c, d) ==
    /\ Live(c) /\ ~Guarded(c)
    /\ ~Live(d)
    /\ conts' = [conts EXCEPT ![d] = Some(AnnotatedClone(Cont(c))),
                              ![c] = Some(AnnotatedCloneSource(Cont(c)))]
    /\ epochDerives' = [epochDerives EXCEPT ![d] = 0]
    /\ epochAnnos' = [epochAnnos EXCEPT ![d] = 0]
    /\ stale' = [stale EXCEPT ![d] = None]
    /\ ret' = Ret("clone", d, c, 0)
    /\ UNCHANGED <<listVars, adRet, derive, guards, refs>>

\* c.child()
Child(c) ==
    /\ Live(c) /\ ~Guarded(c)
    /\ ret' = Ret("child", c, c, AnnotatedChild(Cont(c)))
    /\ UNCHANGED <<listVars, adRet, derive, conts, guards, refs, epochDerives, epochAnnos, stale>>

\* c.anno(); the returned Ref is kept alive or dropped at once
Anno(c, keep) ==
    /\ Live(c) /\ ~Guarded(c)
    /\ epochAnnos[c] < MaxAnnoCalls
    /\ keep => refs[c] < MaxRefs
    /\ LET r == AnnotatedAnno(Cont(c), refs[c] > 0)
       IN /\ conts' = [conts EXCEPT ![c] = Some(r.self)]
          /\ epochDerives' = [epochDerives EXCEPT ![c] = @ + r.calls]
          /\ epochAnnos' = [epochAnnos EXCEPT ![c] = @ + 1]
          /\ refs' = [refs EXCEPT ![c] = IF keep /\ ~r.panic THEN @ + 1 ELSE @]
          /\ ret' = Ret(IF r.panic THEN "panic" ELSE "anno", c, c, r.val)
    /\ UNCHANGED <<listVars, adRet, derive, guards, stale>>

\* a Ref<A> goes out of scope
DropRef(c) ==
    /\ refs[c] > 0
    /\ refs' = [refs EXCEPT ![c] = @ - 1]
    /\ ret' = Ret("drop_ref", c, c, 0)
    /\ UNCHANGED <<listVars, adRet, derive, conts, guards, epochDerives, epochAnnos, stale>>

\* c.split(): moves the container out of its binding; nothing borrows it
Split(c) ==
    /\ Live(c) /\ ~Guarded(c) /\ refs[c] = 0
    /\ conts' = [conts EXCEPT ![c] = None]
    /\ epochDerives' = [epochDerives EXCEPT ![c] = @ + AnnotatedSplit(Cont(c)).calls]
    /\ ret' = Ret("split", c, c, AnnotatedSplit(Cont(c)).out)
    /\ UNCHANGED <<listVars, adRet, derive, guards, refs, epochAnnos, stale>>

\* c == d, c.partial_cmp(&d), c.cmp(&d)
Eq(c, d) ==
    /\ Live(c) /\ ~Guarded(c) /\ Live(d) /\ ~Guarded(d)
    /\ ret' = Ret("eq", c, d, AnnotatedEq(Cont(c), Cont(d)))
    /\ UNCHANGED <<listVars, adRet, derive, conts, guards, refs, epochDerives, epochAnnos, stale>>

PartialCmp(c, d) ==
    /\ Live(c) /\ ~Guarded(c) /\ Live(d) /\ ~Guarded(d)
    /\ ret' = Ret("partial_cmp", c, d, AnnotatedPartialCmp(Cont(c), Cont(d)))
    /\ UNCHANGED <<listVars, adRet, derive, conts, guards, refs, epochDerives, epochAnnos, stale>>

Cmp(c, d) ==
    /\ Live(c) /\ ~Guarded(c) /\ Live(d) /\ ~Guarded(d)
    /\ ret' = Ret("cmp", c, d, AnnotatedCmp(Cont(c), Cont(d)))
    /\ UNCHANGED <<listVars, adRet, derive, conts, guards, refs, epochDerives, epochAnnos, stale>>

\* let g = c.child_mut();  needs &mut c, so no Ref and no other guard is alive
ChildMut(c) ==
    /\ Live(c) /\ ~Guarded(c) /\ refs[c] = 0
    /\ conts' = [conts EXCEPT ![c] = Some(AnnotatedChildMut(Cont(c)))]
    /\ guards' = [guards EXCEPT ![c] = Some(RefMutNew)]
    /\ ret' = Ret("child_mut", c, c, 0)
    /\ UNCHANGED <<listVars, adRet, derive, refs, epochDerives, epochAnnos, stale>>

\* &*g : a read through the guard
GuardDeref(c) ==
    /\ Guarded(c) /\ ~Exposed(c)
    /\ ret' = Ret("deref", c, c, RefMutDeref(Cont(c)))
    /\ UNCHANGED <<listVars, adRet, derive, conts, guards, refs, epochDerives, epochAnnos, stale>>

\* &mut *g : the invalidation; the returned &mut C borrows the guard
GuardDerefMut(c) ==
    /\ Guarded(c) /\ ~Exposed(c)
    /\ Guard(c).derefMuts < MaxDerefMut
    /\ conts' = [conts EXCEPT ![c] = Some(RefMutDerefMut(Cont(c)))]
    /\ guards' = [guards EXCEPT ![c] =
           Some([derefMuts |-> Guard(c).derefMuts + 1, exposed |-> TRUE])]
    /\ epochDerives' = [epochDerives EXCEPT ![c] = 0]
    /\ epochAnnos' = [epochAnnos EXCEPT ![c] = 0]
    /\ stale' = [stale EXCEPT ![c] = IF IsSome(Cont(c).anno) THEN Cont(c).anno ELSE @]
    /\ ret' = Ret("deref_mut", c, c, 0)
    /\ UNCHANGED <<listVars, adRet, derive, refs>>

\* a write through the &mut C that deref_mut returned
WriteChild(c, child) ==
    /\ Exposed(c)
    /\ conts' = [conts EXCEPT ![c] = Some([Cont(c) EXCEPT !.child = child])]
    /\ ret' = Ret("write", c, c, child)
    /\ UNCHANGED <<listVars, adRet, derive, guards, refs, epochDerives, epochAnnos, stale>>

\* the &mut C goes out of scope
EndExposure(c) ==
    /\ Exposed(c)
    /\ guards' = [guards EXCEPT ![c] = Some([Guard(c) EXCEPT !.exposed = FALSE])]
    /\ ret' = Ret("end_exposure", c, c, 0)
    /\ UNCHANGED <<listVars, adRet, derive, conts, refs, epochDerives, epochAnnos, stale>>

\* the guard goes out of scope (AnnotatedRefMut has no Drop impl)
DropGuard(c) ==
    /\ Guarded(c) /\ ~Exposed(c)
    /\ guards' = [guards EXCEPT ![c] = None]
    /\ conts' = [conts EXCEPT ![c] = Some(RefMutDrop(Cont(c)))]
    /\ ret' = Ret("drop_guard", c, c, Guard(c).derefMuts)
    /\ UNCHANGED <<listVars, adRet, derive, refs, epochDerives, epochAnnos, stale>>

\* Everything a caller can do with the one container bound to c.
Ops(c) ==
    \/ \E child \in Children : New(c, child)
    \/ Default(c)
    \/ \E elem \in Children : From(c, elem)
    \/ Child(c)
    \/ \E keep \in BOOLEAN : Anno(c, keep)
    \/ DropRef(c)
    \/ Split(c)
    \/ ChildMut(c)
    \/ GuardDeref(c)
    \/ GuardDerefMut(c)
    \/ \E child \in Children : WriteChild(c, child)
    \/ EndExposure(c)
    \/ DropGuard(c)

\* One container, any capability.
Next == Ops("x")

Spec == Init /\ [][Next]_vars

\* Two containers under one capability (the annotation is the child's
\* parity), with the operations that take or make a second container.
InitPair ==
    /\ Init
    /\ derive = [child \in Children |-> child % 2]

NextPair ==
    \/ \E c \in Ids : Ops(c)
    \/ \E c \in Ids, d \in Ids : Clone(c, d)
    \/ \E c \in Ids, d \in Ids : Eq(c, d)
    \/ \E c \in Ids, d \in Ids : PartialCmp(c, d)
    \/ \E c \in Ids, d \in Ids : Cmp(c, d)

SpecPair == InitPair /\ [][NextPair]_vars

\* ------------------------------------------------ the list's operations
\* The operation `op` enters the record of the last three.
Ops3(op) == <<op, listRet.ops[1], listRet.ops[2]>>
\* The number of ones in a sequence of zeros and ones.
RECURSIVE Ones(_)
Ones(s) == IF s = <<>> THEN 0 ELSE Head(s) + Ones(Tail(s))
\* n zeros
Zeros(n) == [i \in 1..n |-> 0]
\* s without its first n entries
Drop(s, n) == SubSeq(s, n + 1, Len(s))

\* list.push(data)
Push(data) ==
    /\ Count(list) < MaxLen
    /\ LET r == LinkedListPush(list, data)
       IN /\ list' = r.list
          /\ wrapDerives' = Zeros(r.made) \o wrapDerives
    /\ listRet' = [ops |-> Ops3("push"), val |-> 0, calls |-> 0]
    /\ UNCHANGED <<derive, contVars, adRet>>

\* list.pop()
Pop ==
    /\ LET r == LinkedListPop(list)
       IN /\ list' = r.list
          /\ wrapDerives' = Zeros(r.made) \o Drop(wrapDerives, r.split)
          /\ listRet' = [ops |-> Ops3("pop"), val |-> r.out, calls |-> 0]
    /\ UNCHANGED <<derive, contVars, adRet>>

\* Cardinality::from_child(&list): the outermost annotation is read
ReadCardinality ==
    /\ LET r == CardinalityFromChild(list)
       IN /\ list' = r.list
          /\ wrapDerives' =
                 [d \in 1..Len(wrapDerives) |->
                     wrapDerives[d] + IF d <= Len(r.calls) THEN r.calls[d] ELSE 0]
          /\ listRet' = [ops |-> Ops3("read"), val |-> r.val,
                          calls |-> Ones(r.calls)]
    /\ UNCHANGED <<derive, contVars, adRet>>

InitListOnly ==
    /\ derive = [child \in Children |-> 0]
    /\ InitConts
    /\ InitList
    /\ InitAdapters

NextList ==
    \/ \E data \in Elems : Push(data)
    \/ Pop
    \/ ReadCardinality

SpecList == InitListOnly /\ [][NextList]_vars

\* ------------------------------------------- deriving through adapters
\* A::from_child(&t)
Derive(t) ==
    /\ adRet' = Some([child |-> t, val |-> FromChildAt(t).val,
                      calls |-> FromChildAt(t).calls])
    /\ UNCHANGED <<derive, contVars, listVars>>

\* over a raw child
DeriveRaw(raw) == Derive(Wrapped(<<>>, raw))

\* over the child last derived over, put behind one more indirection
DeriveBehind(kind) ==
    /\ IsSome(adRet)
    /\ Len(Unwrap(adRet).child.layers) < MaxWrap
    /\ Derive(Wrapped(<<kind>> \o Unwrap(adRet).child.layers,
                      Unwrap(adRet).child.raw))

NextAdapters ==
    \/ \E raw \in Children : DeriveRaw(raw)
    \/ DeriveBehind("Ref")
    \/ DeriveBehind("RefMut")
    \/ DeriveBehind("Rc")
    \/ DeriveBehind("Arc")
    \/ DeriveBehind("Box")

SpecAdapters == Init /\ [][NextAdapters]_vars

\* ================================================================ claims

\* C1: cache coherence.  Whenever the cache of a container holds a value,
\* that value is from_child of the container's current child; and the value
\* an anno() call returns is from_child of the current child, also after the
\* child was changed through the guard.
C1_CacheCoherence ==
    /\ \A c \in Ids :
          Live(c) /\ IsSome(Cont(c).anno)
              => Unwrap(Cont(c).anno) = FromChild(Cont(c).child)
    /\ ret.op = "anno" => ret.val = FromChild(Cont(ret.c).child)

\* anno() returned a value other than the one the last invalidation erased
C1_Witness ==
    /\ ret.op = "anno"
    /\ IsSome(stale[ret.c])
    /\ ret.val # Unwrap(stale[ret.c])

\* C2: memoization.  Within one epoch from_child is invoked at most once,
\* and exactly once as soon as anno() was called in it; every anno() call
\* returns the value the cache holds.
C2_Memoization ==
    /\ \A c \in Ids :
          Live(c) =>
              /\ epochDerives[c] <= 1
              /\ epochAnnos[c] >= 1
                    => epochDerives[c] = 1 /\ IsSome(Cont(c).anno)
    /\ ret.op = "anno" => Some(ret.val) = Cont(ret.c).anno

\* two anno() calls in one epoch, one from_child invocation
C2_Witness ==
    /\ ret.op = "anno"
    /\ epochAnnos[ret.c] = 2
    /\ epochDerives[ret.c] = 1

\* C3: lazy computation.  new, default and from leave the cache Empty with
\* no from_child invocation, and as long as anno() was not called (child()
\* calls included) the cache stays Empty and from_child is not invoked.
C3_Lazy ==
    /\ ret.op \in {"new", "default", "from"}
          => IsNone(Cont(ret.c).anno) /\ epochDerives[ret.c] = 0
    /\ \A c \in Ids :
          Live(c) /\ epochAnnos[c] = 0
              => IsNone(Cont(c).anno) /\ epochDerives[c] = 0

\* child() was called on a container that was never invalidated and on
\* which anno() was not called yet
C3_Witness ==
    /\ ret.op = "child"
    /\ epochAnnos[ret.c] = 0
    /\ IsNone(stale[ret.c])
    /\ IsNone(Cont(ret.c).anno)

\* C4 as stated: the cache is Empty as soon as child_mut() has returned.
C4_ChildMutClears ==
    ret.op = "child_mut" => IsNone(Cont(ret.c).anno)

\* C4 amended: the cache is cleared by the mutable dereference of the guard.
\* A guard that was not mutably dereferenced leaves a filled cache filled; a
\* guard that was, leaves the cache Empty until it is dropped, whatever the
\* caller wrote; and the first anno() call of an epoch invokes from_child.
C4_DerefMutClears ==
    /\ \A c \in Ids :
          Live(c) /\ Guarded(c) =>
              /\ Guard(c).derefMuts > 0 => IsNone(Cont(c).anno)
              /\ Guard(c).derefMuts = 0 /\ epochAnnos[c] >= 1
                    => IsSome(Cont(c).anno)
    /\ ret.op = "deref_mut" => IsNone(Cont(ret.c).anno)
    /\ ret.op = "drop_guard" /\ ret.val > 0
          => IsNone(Cont(ret.c).anno) /\ epochAnnos[ret.c] = 0
    /\ ret.op = "anno" /\ epochAnnos[ret.c] = 1 => epochDerives[ret.c] = 1

\* a guard that was mutably dereferenced is dropped: the value the cache
\* held is gone
C4_Witness ==
    /\ ret.op = "drop_guard"
    /\ ret.val > 0
    /\ IsSome(stale[ret.c])
    /\ IsNone(Cont(ret.c).anno)

\* C5: split.  The step that consumes a container returns its child and
\* exactly what its cache held, and invokes from_child not once.
C5_Split ==
    [][\A c \in Ids :
          Live(c) /\ conts'[c] = None
              => /\ ret'.op = "split"
                 /\ ret'.val = <<Cont(c).child, Cont(c).anno>>
                 /\ epochDerives'[c] = epochDerives[c]]_vars

\* a container that was invalidated and read again is split with its value
C5_Witness ==
    /\ ret.op = "split"
    /\ IsSome(stale[ret.c])
    /\ IsSome(ret.val[2])

\* C6: clone independence.  A clone has the source's child and an Empty
\* cache whatever the source's cache holds, the source is left as it was,
\* the first anno() call on a container invokes from_child for it, and no
\* operation on one container changes another.
C6_CloneIndependence ==
    [][/\ ret'.op = "clone"
             => /\ conts'[ret'.c] =
                       Some([child |-> Cont(ret'.d).child, anno |-> None])
                /\ conts'[ret'.d] = conts[ret'.d]
                /\ epochDerives'[ret'.c] = 0
       /\ ret'.op = "anno" /\ epochAnnos'[ret'.c] = 1
             => epochDerives'[ret'.c] = 1
       /\ \A c \in Ids :
             c # ret'.c /\ c # ret'.d => conts'[c] = conts[c]]_vars

\* a container whose cache holds a value was cloned
C6_Witness ==
    /\ ret.op = "clone"
    /\ IsSome(Cont(ret.d).anno)
    /\ IsNone(Cont(ret.c).anno)

\* C7: identity excludes the annotation.  eq, partial_cmp and cmp of two
\* containers return what the same comparison of their children returns,
\* whatever the two caches hold.
C7_IdentityExcludesAnno ==
    /\ ret.op = "eq"
          => ret.val = (Cont(ret.c).child = Cont(ret.d).child)
    /\ ret.op = "partial_cmp"
          => ret.val = Some(OrdCmp(Cont(ret.c).child, Cont(ret.d).child))
    /\ ret.op = "cmp"
          => ret.val = OrdCmp(Cont(ret.c).child, Cont(ret.d).child)

\* two containers with equal children, one annotation computed and one not,
\* compared equal
C7_Witness ==
    /\ ret.op = "eq"
    /\ ret.c # ret.d
    /\ ret.val = TRUE
    /\ IsSome(Cont(ret.c).anno)
    /\ IsNone(Cont(ret.d).anno)

\* C8: recursive roll-up value.  In every state reached by pushes, pops and
\* reads from the empty list, the outermost annotation (computed over the
\* nested cells as they are, filled or not) is the number of elements in
\* the list, and so is the value a read returned.
C8_RollUpValue ==
    /\ CardinalityFromChild(list).val = Count(list)
    /\ listRet.ops[1] = "read" => listRet.val = Count(list)

\* the annotation read 3 on three elements, one was popped, it reads 2
C8_Witness ==
    /\ listRet.ops = <<"read", "pop", "read">>
    /\ listRet.val = 2
    /\ Len(Wrappers(list)) = 1

\* C9: recursive roll-up reuse.  from_child is invoked at most once for a
\* nested Annotated over its whole life, through every push and pop it
\* survives: its cell is filled exactly when that invocation happened.  A
\* read leaves every nested cell filled, so a read that follows a push or a
\* pop made after a read derives the one wrapper the push created, and
\* nothing after a pop.
C9_RollUpReuse ==
    /\ Len(wrapDerives) = Len(Wrappers(list))
    /\ \A d \in 1..Len(wrapDerives) :
          /\ wrapDerives[d] <= 1
          /\ IsSome(Wrappers(list)[d].anno) <=> wrapDerives[d] = 1
    /\ listRet.ops[1] = "read"
          => \A d \in 1..Len(wrapDerives) : IsSome(Wrappers(list)[d].anno)
    /\ listRet.ops = <<"read", "push", "read">> => listRet.calls <= 1
    /\ listRet.ops = <<"read", "pop", "read">> => listRet.calls = 0

\* read, push, read on a list with a nested node that survived the push:
\* the second read derived the new wrapper alone
C9_Witness ==
    /\ listRet.ops = <<"read", "push", "read">>
    /\ Len(wrapDerives) >= 2
    /\ listRet.calls = 1

\* C10: adapter transparency.  Deriving over a child behind references, Rc,
\* Arc or Box returns what the raw implementation returns for the raw
\* child, and invokes the raw implementation once.
C10_AdapterTransparency ==
    IsSome(adRet) =>
        /\ Unwrap(adRet).val = derive[Unwrap(adRet).child.raw]
        /\ Unwrap(adRet).calls = 1

\* an annotation was derived over an Rc of a child
C10_Witness ==
    /\ IsSome(adRet)
    /\ Unwrap(adRet).child.layers = <<"Rc">>
    /\ Unwrap(adRet).val = 1

\* C11: invalidate before expose.  Whenever the &mut C handed out by a
\* guard is alive the cache is Empty, also while the child is written; and
\* once a guard was mutably dereferenced the cache stays Empty, with no
\* anno() call and no from_child invocation, for as long as the guard lives.
C11_InvalidateBeforeExpose ==
    /\ \A c \in Ids :
          Live(c) /\ Guarded(c) =>
              /\ Guard(c).exposed => IsNone(Cont(c).anno)
              /\ Guard(c).derefMuts >= 1
                    => /\ IsNone(Cont(c).anno)
                       /\ epochAnnos[c] = 0
                       /\ epochDerives[c] = 0
    /\ ret.op = "write" => IsNone(Cont(ret.c).anno)

\* the child is written through a guard of a container whose cache held a
\* value before
C11_Witness ==
    /\ ret.op = "write"
    /\ Exposed(ret.c)
    /\ IsSome(stale[ret.c])

\* C12 as stated: a guard that goes out of scope has exposed the child for
\* mutation exactly once.
C12_ExposedExactlyOnce ==
    ret.op = "drop_guard" => ret.val = 1

\* C12 amended: the child is exposed once per mutable dereference of the
\* guard.  child_mut() itself exposes nothing, the &mut C is alive only
\* after a mutable dereference, and reads and writes through the guard
\* happen with the exposure they need; a guard may be dropped after zero,
\* one or several exposures.
C12_ExposedPerDerefMut ==
    /\ ret.op = "child_mut"
          => Guard(ret.c).derefMuts = 0 /\ ~Guard(ret.c).exposed
    /\ \A c \in Ids :
          Guarded(c) /\ Guard(c).exposed => Guard(c).derefMuts >= 1
    /\ ret.op = "deref_mut"
          => Exposed(ret.c) /\ Guard(ret.c).derefMuts >= 1
    /\ ret.op = "write" => Exposed(ret.c)
    /\ ret.op = "deref" => ~Exposed(ret.c)

\* a guard that exposed the child twice goes out of scope
C12_Witness ==
    /\ ret.op = "drop_guard"
    /\ ret.val = 2

\* C13: cache-slot lifecycle.  The cache of a container changes only from
\* Empty to Holds(from_child(child)), in an anno() call, or to Empty, in a
\* mutable dereference of the guard; an anno() call fills an Empty cache and
\* leaves a filled one as it is; a mutable dereference leaves it Empty.
C13_CacheLifecycle ==
    [][\A c \in Ids :
          Live(c) /\ conts'[c] # None =>
              LET old == Cont(c).anno
                  new == conts'[c][1].anno
              IN /\ old # new
                       => \/ /\ IsNone(old)
                             /\ ret'.op = "anno"
                             /\ new = Some(FromChild(Cont(c).child))
                          \/ /\ IsNone(new)
                             /\ ret'.op = "deref_mut"
                 /\ ret'.op = "anno" /\ ret'.c = c /\ IsNone(old)
                       => new = Some(FromChild(Cont(c).child))
                 /\ ret'.op = "anno" /\ ret'.c = c /\ IsSome(old)
                       => new = old
                 /\ ret'.op = "deref_mut" /\ ret'.c = c
                       => IsNone(new)]_vars

\* a filled cache was emptied by a mutable dereference
C13_Witness ==
    /\ ret.op = "deref_mut"
    /\ IsSome(stale[ret.c])
    /\ IsNone(Cont(ret.c).anno)
    /\ Guard(ret.c).derefMuts = 1

\* C14: anno() never meets a borrowed cell it has to write.  While a Ref
\* returned by anno() is alive the container is there, unguarded, and its
\* cache holds a value; no anno() call panics.
C14_NoBorrowConflict ==
    /\ \A c \in Ids :
          refs[c] > 0
              => Live(c) /\ ~Guarded(c) /\ IsSome(Cont(c).anno)
    /\ ret.op # "panic"

\* anno() returned while two views of the annotation were held
C14_Witness ==
    /\ ret.op = "anno"
    /\ refs[ret.c] >= 2
    /\ epochAnnos[ret.c] >= 2

\* C15: only a mutable dereference invalidates.  child_mut() and reads
\* through the guard leave the child, the cache and the count of from_child
\* invocations as they are; an anno() call that finds the cache filled
\* returns its value without invoking from_child; a mutable dereference
\* empties the cache and leaves the child's value.
C15_OnlyDerefMutInvalidates ==
    [][\A c \in Ids :
          Live(c) /\ ret'.c = c =>
              /\ ret'.op \in {"child_mut", "deref"}
                    => /\ conts'[c] = conts[c]
                       /\ epochDerives'[c] = epochDerives[c]
                       /\ epochAnnos'[c] = epochAnnos[c]
              /\ ret'.op = "anno" /\ IsSome(Cont(c).anno)
                    => /\ ret'.val = Unwrap(Cont(c).anno)
                       /\ epochDerives'[c] = epochDerives[c]
              /\ ret'.op = "deref_mut"
                    => conts'[c] = Some([child |-> Cont(c).child,
                                         anno |-> None])]_vars

\* the child is read through a guard that was not mutably dereferenced, and
\* the cache still holds its value
C15_Witness ==
    /\ ret.op = "deref"
    /\ Guard(ret.c).derefMuts = 0
    /\ IsSome(Cont(ret.c).anno)

\* C16: releasing the guard has no effect.  The step in which a guard goes
\* out of scope leaves the container's child and cache, and the counts of
\* anno() calls and from_child invocations, as they were.
C16_ReleaseNoEffect ==
    [][\A c \in Ids :
          Guarded(c) /\ guards'[c] = None
              => /\ ret'.op = "drop_guard"
                 /\ conts'[c] = conts[c]
                 /\ epochDerives'[c] = epochDerives[c]
                 /\ epochAnnos'[c] = epochAnnos[c]]_vars

\* a guard that was never mutably dereferenced went out of scope over a
\* filled cache
C16_Witness ==
    /\ ret.op = "drop_guard"
    /\ ret.val = 0
    /\ IsSome(Cont(ret.c).anno)

\* C17: read-only and structural operations do not touch the receiver.
\* child(), eq, partial_cmp and cmp leave every container and every count of
\* from_child invocations as they were; clone leaves its receiver and the
\* receiver's count as they were.
C17_ReadOnlyFrame ==
    [][/\ ret'.op \in {"child", "eq", "partial_cmp", "cmp"}
             => conts' = conts /\ epochDerives' = epochDerives
       /\ ret'.op = "clone"
             => /\ conts'[ret'.d] = conts[ret'.d]
                /\ epochDerives'[ret'.d] = epochDerives[ret'.d]]_vars

\* two containers were ordered while one of them held an annotation
C17_Witness ==
    /\ ret.op = "partial_cmp"
    /\ ret.c # ret.d
    /\ ret.val = Some("Less")
    /\ IsSome(Cont(ret.c).anno)

====
